---- MODULE Spec2Model ----
(***************************************************************************)
(* rgoap: regressive A* planner (Node, Planner, PlanExecutor) of           *)
(* rgoap/planning.py, with the WorldState / Action / Goal domain model it  *)
(* is written against.                                                     *)
(*                                                                         *)
(* A worldstate is a function from a subset of the conditions to values.   *)
(* Nodes live in a store (the sequence nodes); a node is named by its      *)
(* index, which is also the order in which the Node objects were built.    *)
(* heuristic_distance and total_cost() are kept as integers scaled by      *)
(* HScale, so that the quotients the heuristic adds up are exact.          *)
(***************************************************************************)
EXTENDS Integers, Sequences, FiniteSets, TLC

\* ------------------------------------------------------------ bounds
\* condition values are 0..MaxValue
MaxValue == 2
\* how often the freeform context of an action may change in one behaviour
MaxContextChanges == 2
\* how often the real world may change behind the planner's back
MaxDrift == 1

\* the planner's loop limit
LoopLimit == 500

Values == 0..MaxValue

RECURSIVE Factorial(_)
Factorial(n) == IF n <= 1 THEN 1 ELSE n * Factorial(n - 1)

\* heuristic distances are stored multiplied by HScale
HScale == Factorial(MaxValue)

\* ------------------------------------------------------------ domain
Conditions == {"door", "at_door", "x"}

\* conditions whose values are numbers (booleans included); the values of
\* the others are symbols (door: 0 = closed, 1 = open)
Numeric == {"at_door", "x"}

EmptyWorldState == [c \in {} |-> 0]

WS1(c, v) == [k \in {c} |-> v]

WS2(c1, v1, c2, v2) == [k \in {c1, c2} |-> IF k = c1 THEN v1 ELSE v2]

WS3(d, a, n) == [k \in Conditions |-> IF k = "door" THEN d ELSE IF k = "at_door" THEN a ELSE n]

\* the actions a catalog is made of: preconditions, effects, cost
ActionPool ==
  [ WalkToDoor |-> [pre |-> EmptyWorldState,    eff |-> WS1("at_door", 1), cost |-> 1],
    OpenDoor   |-> [pre |-> WS1("at_door", 1),  eff |-> WS1("door", 1),    cost |-> 1],
    KickDoor   |-> [pre |-> EmptyWorldState,    eff |-> WS1("door", 1),    cost |-> 3],
    StepUp     |-> [pre |-> WS1("x", 0),        eff |-> WS1("x", 1),       cost |-> 1],
    StepDown   |-> [pre |-> WS1("x", 1),        eff |-> WS1("x", 0),       cost |-> 1],
    Climb      |-> [pre |-> WS1("x", 1),        eff |-> WS1("x", 2),       cost |-> 1],
    Jump       |-> [pre |-> EmptyWorldState,    eff |-> WS1("x", 2),       cost |-> 2],
    Unlock     |-> [pre |-> WS1("x", 1),        eff |-> WS1("door", 1),    cost |-> 1],
    Reset      |-> [pre |-> EmptyWorldState,    eff |-> WS1("x", 0),       cost |-> 1],
    Escape     |-> [pre |-> WS1("x", 2),        eff |-> WS1("door", 1),    cost |-> 1],
    Descend    |-> [pre |-> WS1("x", 2),        eff |-> WS1("x", 1),       cost |-> 1],
    Spin       |-> [pre |-> WS1("x", 0),        eff |-> WS1("x", 0),       cost |-> 1] ]

ActionNames == DOMAIN ActionPool

\* the action of the goal node
NoAction == "None"

Catalogs ==
  { {},
    {"WalkToDoor"},
    {"WalkToDoor", "OpenDoor"},
    {"WalkToDoor", "OpenDoor", "KickDoor"},
    {"StepUp", "StepDown"},
    {"StepUp", "Climb", "Jump"},
    {"StepUp", "Unlock", "Reset"},
    {"StepUp", "Climb", "Escape"},
    {"Descend", "Jump"},
    {"Spin"} }

Starts ==
  { WS3(0, 0, 0), WS3(0, 1, 0), WS3(1, 0, 1), WS3(1, 1, 0) }

Goals ==
  { WS1("door", 1), WS1("x", 2), WS1("x", 1),
    WS2("door", 1, "x", 0), WS2("door", 1, "at_door", 1) }

\* ------------------------------------------------------------ WorldState
\* WorldState.matches(other): self satisfies every condition other cares about
matches(self, other) ==
  \A c \in DOMAIN other : c \in DOMAIN self /\ self[c] = other[c]

\* WorldState.get_unsatisfied_conditions(reference): the conditions on which
\* the two worldstates differ
get_unsatisfied_conditions(self, reference) ==
  {c \in (DOMAIN self) \cap (DOMAIN reference) : self[c] # reference[c]}

\* WorldState.set_condition_value
set_condition_value(ws, c, v) ==
  [k \in (DOMAIN ws) \cup {c} |-> IF k = c THEN v ELSE ws[k]]

\* ------------------------------------------------------------ Action, Goal
cost_of(a) == ActionPool[a].cost

\* Action.is_valid(worldstate): the preconditions hold in worldstate
is_valid(a, ws) ==
  \A c \in DOMAIN ActionPool[a].pre : c \in DOMAIN ws /\ ws[c] = ActionPool[a].pre[c]

\* Action.has_satisfying_effects: an effect of the action produces the value
\* the node wants for one of its unsatisfied conditions
has_satisfying_effects(a, node_worldstate, start_worldstate, unsatisfied) ==
  \E c \in (DOMAIN ActionPool[a].eff) \cap unsatisfied :
      node_worldstate[c] = ActionPool[a].eff[c]

\* Action.apply_preconditions(worldstate, start_worldstate): the regressed
\* state; running the action forward from it gives back what worldstate
\* wanted: the conditions the effects produce are no longer wanted, the
\* preconditions are
apply_preconditions(a, ws, start_worldstate) ==
  LET pre  == ActionPool[a].pre
      eff  == ActionPool[a].eff
      keep == ((DOMAIN ws) \ (DOMAIN eff)) \cup (DOMAIN pre)
  IN  [c \in keep |-> IF c \in DOMAIN pre THEN pre[c] ELSE ws[c]]

\* Goal.apply_preconditions on an empty worldstate: the "done" state
goal_apply_preconditions(g, ws) ==
  [c \in (DOMAIN ws) \cup (DOMAIN g) |-> IF c \in DOMAIN g THEN g[c] ELSE ws[c]]

\* ------------------------------------------------------------ Node
\* heuristic_distance of a node whose heuristic is not computed yet (None)
NoneH == -1

\* the node named by no index (Python's None)
None == 0

\* Node.__init__
Node(worldstate, action, parent_nodes_path_list, parent_actions_path_list) ==
  [ worldstate |-> worldstate,
    action |-> action,
    possible_prev_nodes |-> << >>,
    parent_nodes_path_list |-> parent_nodes_path_list,
    parent_actions_path_list |-> parent_actions_path_list,
    heuristic_distance |-> NoneH ]

is_goal(node) == node.action = NoAction

\* parent_node() taking the first node of the path, the goal node
parent_node_first(node) == node.parent_nodes_path_list[1]

parent_node(node) == node.parent_nodes_path_list[Len(node.parent_nodes_path_list)]

cost(node) == IF is_goal(node) THEN 0 ELSE cost_of(node.action)

\* the sum of cost() over the first n nodes of path
RECURSIVE SumCost(_, _, _)
SumCost(ns, path, n) ==
  IF n = 0 THEN 0 ELSE cost(ns[path[n]]) + SumCost(ns, path, n - 1)

\* path_cost() without the node's own cost
path_cost_without_own(ns, node) ==
  SumCost(ns, node.parent_nodes_path_list, Len(node.parent_nodes_path_list))

path_cost(ns, node) ==
  cost(node) + SumCost(ns, node.parent_nodes_path_list, Len(node.parent_nodes_path_list))

\* scaled by HScale
total_cost(ns, node) == HScale * path_cost(ns, node) + node.heuristic_distance

Abs(i) == IF i < 0 THEN -i ELSE i

RECURSIVE SumOver(_, _, _, _)
SumOver(S, node_worldstate, start_worldstate, goal_worldstate) ==
  IF S = {} THEN 0
  ELSE LET c == CHOOSE k \in S : TRUE
           contribution ==
             IF c \notin DOMAIN goal_worldstate THEN HScale
             ELSE IF c \notin Numeric THEN HScale
             ELSE (HScale * Abs(node_worldstate[c] - start_worldstate[c]))
                     \div Abs(goal_worldstate[c] - start_worldstate[c])
       IN  contribution + SumOver(S \ {c}, node_worldstate, start_worldstate, goal_worldstate)

\* line 147 without the clamp: the sum is kept as it is
unclamped(a, b) == b

Min(a, b) == IF a <= b THEN a ELSE b

\* the division of line 130 by a distance_total of zero: a ZeroDivisionError,
\* which the except TypeError of line 136 does not catch
heuristic_raises(ns, node, start_worldstate) ==
  /\ ~is_goal(node)
  /\ LET goal_worldstate == ns[node.parent_nodes_path_list[1]].worldstate
     IN  \E c \in get_unsatisfied_conditions(node.worldstate, start_worldstate) :
           /\ c \in DOMAIN goal_worldstate
           /\ c \in Numeric
           /\ goal_worldstate[c] = start_worldstate[c]

\* lines 108-110 counting every condition of the goal node's worldstate
calc_heuristic_counting_all(ns, node, start_worldstate) ==
  LET unsatisfied_conditions_set ==
        get_unsatisfied_conditions(node.worldstate, start_worldstate)
  IN  IF is_goal(node)
      THEN HScale * Cardinality(DOMAIN node.worldstate)
      ELSE Min(HScale * Cardinality(unsatisfied_conditions_set),
               SumOver(unsatisfied_conditions_set, node.worldstate, start_worldstate,
                       ns[node.parent_nodes_path_list[1]].worldstate))

\* Node._calc_heuristic_distance_for_node: the value stored (scaled by HScale)
calc_heuristic_distance_for_node(ns, node, start_worldstate) ==
  LET unsatisfied_conditions_set ==
        get_unsatisfied_conditions(node.worldstate, start_worldstate)
  IN  IF is_goal(node)
      THEN HScale * Cardinality(unsatisfied_conditions_set)
      ELSE Min(HScale * Cardinality(unsatisfied_conditions_set),
               SumOver(unsatisfied_conditions_set, node.worldstate, start_worldstate,
                       ns[node.parent_nodes_path_list[1]].worldstate))

\* Node.get_child_nodes(actions, start_worldstate) on the node cur of the store
\* ns, actions a sequence: the store with the children built and appended to
\* possible_prev_nodes, and whether the call raised (the assertion of line 154,
\* or the heuristic of a child); a child whose heuristic raises is not stored
RECURSIVE get_child_nodes(_, _, _, _)
get_child_nodes(ns, cur, actions, start_worldstate) ==
  IF actions = << >> THEN [nodes |-> ns, raised |-> FALSE]
  ELSE LET self == ns[cur]
           action == Head(actions)
           nodes_path_list == Append(self.parent_nodes_path_list, cur)
           actions_path_list == Append(self.parent_actions_path_list, action)
           worldstatecopy == apply_preconditions(action, self.worldstate, start_worldstate)
           node == Node(worldstatecopy, action, nodes_path_list, actions_path_list)
       IN  IF heuristic_raises(ns, node, start_worldstate)
           THEN [nodes |-> ns, raised |-> TRUE]
           ELSE LET done == [node EXCEPT !.heuristic_distance =
                               calc_heuristic_distance_for_node(ns, node, start_worldstate)]
                    id == Len(ns) + 1
                    ns1 == Append([ns EXCEPT ![cur].possible_prev_nodes = Append(@, id)], done)
                IN  get_child_nodes(ns1, cur, Tail(actions), start_worldstate)

\* ------------------------------------------------------------ state
VARIABLES
  actions,            \* Planner._actions: the catalog
  start_worldstate,   \* Planner._start_worldstate
  goal,               \* Planner._goal (its conditions)
  context,            \* what check_freeform_context() of each action answers now
  context_changes,    \* how often context has changed
  world,              \* the real world the actions run in
  drifts,             \* how often the world has changed by itself
  pc,                 \* where the program is
  context_checks,     \* plan(): the answers check_freeform_context() gave it,
                      \* for each action in call order
  checked_actions,    \* plan(): the actions that passed the filter, in the
                      \* order the set is iterated in
  nodes,              \* every Node built by plan(), by index
  child_nodes,        \* plan(): the open collection (a deque of nodes)
  loopcount,          \* plan(): loopcount
  current_node,       \* plan(): the node popped last
  expanded,           \* the nodes get_child_nodes() was called on
  result,             \* what plan() returned
  start_node,         \* PlanExecutor.execute: start_node of the running call
  introspector,       \* PlanExecutor.execute: whether an introspector is given
  calls,              \* the calls execute has made on actions and introspector
  success,            \* what the outermost PlanExecutor.execute returned
  probe,              \* the call a caller made on a node after plan() returned
  rpc,                \* where the Runner is ("none": no Runner is used)
  method,             \* the Runner method that was called
  runner_goal,        \* the goal argument of the Runner method
  tries,              \* the tries argument of the Runner method
  tries_left,         \* update_and_plan(): its local tries
  goals,              \* plan_and_execute_goals(): goals, once sorted
  goal_index,         \* plan_and_execute_goals(): the position of the for loop
  last_goal,          \* Runner._last_goal
  preempt_requested,  \* Runner._preempt_requested
  runner_outcome,     \* what the Runner method returned (its outcome)
  updates,            \* how often _update_worldstate() ran in this call
  plan_calls,         \* how often Runner.plan() was called in this call
  exec_calls,         \* how often Runner.execute() was called in this call
  runner_calls,       \* how many calls of Runner methods the caller has made
  previous_call,      \* goals, plan_calls and exec_calls of the call before this one
  smach_pc,           \* where RGOAPRunnerState.execute is ("none": no Runner)
  smach_outcome,      \* what RGOAPRunnerState.execute returned
  smach_preempt_requested   \* the preempt flag of the smach State

vars == << actions, start_worldstate, goal, context, context_changes, world, drifts,
           pc, context_checks, checked_actions, nodes, child_nodes, loopcount, current_node, result,
           expanded, start_node, introspector, calls, success, probe,
           rpc, method, runner_goal, tries, tries_left, goals, goal_index, last_goal,
           preempt_requested, runner_outcome, updates, plan_calls, exec_calls,
           runner_calls, previous_call, smach_pc, smach_outcome, smach_preempt_requested >>

planner_vars == << context_checks, checked_actions, nodes, child_nodes, loopcount, current_node, result,
                  expanded >>

executor_vars == << start_node, introspector, calls, success >>

instance_vars == << actions, start_worldstate, goal >>

bridge_vars == << smach_pc, smach_outcome, smach_preempt_requested >>

history_vars == << runner_calls, previous_call >>

runner_vars == << rpc, method, runner_goal, tries, tries_left, goals, goal_index, last_goal,
                 preempt_requested, runner_outcome, updates, plan_calls, exec_calls,
                 history_vars, bridge_vars >>

\* success before execute has returned
Pending == "pending"

\* no call made on a node yet
NoProbe == [op |-> "none", node |-> None, first |-> FALSE, asserted |-> FALSE]

\* Runner._last_goal before any goal was executed (None)
NoGoal == "NoGoal"

\* no call of a Runner method before this one
NoCall == [goals |-> << >>, plan_calls |-> 0, exec_calls |-> 0]

\* no Runner: Planner and PlanExecutor are used directly
NoRunner ==
  /\ rpc = "none"
  /\ method = "none"
  /\ runner_goal = NoGoal
  /\ tries = 0
  /\ tries_left = 0
  /\ goals = << >>
  /\ goal_index = 0
  /\ last_goal = NoGoal
  /\ preempt_requested = FALSE
  /\ runner_outcome = Pending
  /\ updates = 0
  /\ plan_calls = 0
  /\ exec_calls = 0
  /\ runner_calls = 0
  /\ previous_call = NoCall
  /\ smach_pc = "none"
  /\ smach_outcome = Pending
  /\ smach_preempt_requested = FALSE

\* Planner.__init__ and the caller's choice of catalog, start worldstate and goal
Init ==
  /\ actions \in Catalogs
  /\ start_worldstate \in Starts
  /\ goal \in Goals
  /\ context = [a \in ActionNames |-> TRUE]
  /\ context_changes = 0
  /\ world = start_worldstate
  /\ drifts = 0
  /\ pc = "idle"
  /\ context_checks = [a \in ActionNames |-> << >>]
  /\ checked_actions = << >>
  /\ nodes = << >>
  /\ child_nodes = << >>
  /\ loopcount = 0
  /\ current_node = None
  /\ result = None
  /\ expanded = {}
  /\ start_node = None
  /\ introspector = FALSE
  /\ calls = << >>
  /\ success = Pending
  /\ probe = NoProbe
  /\ NoRunner

\* ------------------------------------------------------------ environment
\* the freeform context of an action is an external predicate: its answer
\* changes whenever the outside world makes it change
ContextChange ==
  /\ pc \in {"idle", "loop", "found", "exec"}
  /\ context_changes < MaxContextChanges
  /\ \E a \in actions : context' = [context EXCEPT ![a] = ~@]
  /\ context_changes' = context_changes + 1
  /\ UNCHANGED << runner_vars, probe, instance_vars, world, drifts, pc, planner_vars, executor_vars >>

\* the real world changes after the plan was made
Drift ==
  /\ pc \in {"found", "exec"}
  /\ drifts < MaxDrift
  /\ \E c \in Conditions, v \in Values :
        /\ world[c] # v
        /\ world' = [world EXCEPT ![c] = v]
  /\ drifts' = drifts + 1
  /\ UNCHANGED << runner_vars, probe, instance_vars, context, context_changes, pc, planner_vars, executor_vars >>

\* ------------------------------------------------------------ Planner
\* the sequences that list the members of S once each
Orders(S) ==
  {s \in [1..Cardinality(S) -> S] : \A a \in S : \E i \in DOMAIN s : s[i] = a}

\* the filter of lines 196-202 left out
AllActions == actions

\* plan(), lines 196-202: the actions whose freeform context holds
CheckedActions == {a \in actions : context[a]}

\* plan() up to its loop: the filter, the goal node and its heuristic
PlanStart ==
  /\ pc = "idle"
  /\ context_checks' = [a \in ActionNames |->
                          IF a \in actions THEN Append(context_checks[a], context[a])
                          ELSE context_checks[a]]
  /\ checked_actions' \in Orders(CheckedActions)
  /\ LET goal_worldstate == goal_apply_preconditions(goal, EmptyWorldState)
         goal_node == Node(goal_worldstate, NoAction, << >>, << >>)
     IN  nodes' = << [goal_node EXCEPT !.heuristic_distance =
                        calc_heuristic_distance_for_node(<< >>, goal_node, start_worldstate)] >>
  /\ child_nodes' = << 1 >>
  /\ loopcount' = 0
  /\ current_node' = None
  /\ result' = None
  /\ expanded' = {}
  /\ pc' = "loop"
  /\ UNCHANGED << runner_vars, probe, instance_vars, context, context_changes, world, drifts, executor_vars >>

\* _filter_matching_actions() keeping every action
filter_nothing(node_worldstate, acts, start) == acts

\* Planner._filter_matching_actions(node_worldstate, actions), actions a sequence
RECURSIVE filter_matching_actions(_, _, _)
filter_matching_actions(node_worldstate, acts, start) ==
  IF acts = << >> THEN << >>
  ELSE LET rest == filter_matching_actions(node_worldstate, Tail(acts), start)
       IN  IF has_satisfying_effects(Head(acts), node_worldstate, start,
                                     get_unsatisfied_conditions(node_worldstate, start))
           THEN << Head(acts) >> \o rest
           ELSE rest

\* sorted(): x goes behind every member of the sorted sequence s whose key is
\* not greater than its own
RECURSIVE InsertSorted(_, _, _)
InsertSorted(ns, s, x) ==
  IF s = << >> THEN << x >>
  ELSE IF total_cost(ns, ns[Head(s)]) <= total_cost(ns, ns[x])
       THEN << Head(s) >> \o InsertSorted(ns, Tail(s), x)
       ELSE << x >> \o s

RECURSIVE SortInto(_, _, _)
SortInto(ns, sorted, rest) ==
  IF rest = << >> THEN sorted
  ELSE SortInto(ns, InsertSorted(ns, sorted, Head(rest)), Tail(rest))

\* line 249 left out: the children stay behind the older nodes, unsorted
unsorted(ns, s) == s

\* line 249: sorted(child_nodes, key=total_cost), a stable sort
sorted_by_total_cost(ns, s) == SortInto(ns, << >>, s)

\* the test of line 234 inverted
found_plan_inverted(start, node) == ~matches(start, node.worldstate)

\* line 234: the test that ends the search
found_plan(start, node) == matches(start, node.worldstate)

\* the comparison of line 223 off by one
over_loop_limit_early(count) == count >= LoopLimit

\* line 223: the loop limit
over_loop_limit(count) == count > LoopLimit

\* line 221 false: the open collection is empty, lines 251-252
PlanNoNodesLeft ==
  /\ pc = "loop"
  /\ Len(child_nodes) = 0
  /\ result' = None
  /\ pc' = "no_plan"
  /\ UNCHANGED << runner_vars, probe, instance_vars, context, context_changes, world, drifts,
                  context_checks, checked_actions, nodes, child_nodes, loopcount,
                  current_node, expanded, executor_vars >>

\* lines 222-225: the loop limit is hit, then lines 251-252
PlanLoopLimit ==
  /\ pc = "loop"
  /\ Len(child_nodes) # 0
  /\ over_loop_limit(loopcount + 1)
  /\ loopcount' = loopcount + 1
  /\ result' = None
  /\ pc' = "no_plan"
  /\ UNCHANGED << runner_vars, probe, instance_vars, context, context_changes, world, drifts,
                  context_checks, checked_actions, nodes, child_nodes, current_node,
                  expanded, executor_vars >>

\* lines 230-238: the node popped matches the start worldstate
PlanFound ==
  /\ pc = "loop"
  /\ Len(child_nodes) # 0
  /\ ~over_loop_limit(loopcount + 1)
  /\ found_plan(start_worldstate, nodes[Head(child_nodes)])
  /\ loopcount' = loopcount + 1
  /\ current_node' = Head(child_nodes)
  /\ child_nodes' = Tail(child_nodes)
  /\ result' = Head(child_nodes)
  /\ pc' = "found"
  /\ UNCHANGED << runner_vars, probe, instance_vars, context, context_changes, world, drifts,
                  context_checks, checked_actions, nodes, expanded, executor_vars >>

\* lines 230-249 with the node read at the head of the deque but left in it
PlanExpandWithoutPop ==
  /\ pc = "loop"
  /\ Len(child_nodes) # 0
  /\ ~over_loop_limit(loopcount + 1)
  /\ ~found_plan(start_worldstate, nodes[Head(child_nodes)])
  /\ loopcount' = loopcount + 1
  /\ current_node' = Head(child_nodes)
  /\ LET cur == Head(child_nodes)
         helpful_actions ==
           filter_matching_actions(nodes[cur].worldstate, checked_actions, start_worldstate)
         got == IF Len(nodes[cur].possible_prev_nodes) # 0
                THEN [nodes |-> nodes, raised |-> TRUE]
                ELSE get_child_nodes(nodes, cur, helpful_actions, start_worldstate)
     IN  /\ nodes' = got.nodes
         /\ IF got.raised
            THEN /\ child_nodes' = child_nodes
                 /\ pc' = "raised"
            ELSE /\ child_nodes' =
                      sorted_by_total_cost(got.nodes,
                          child_nodes \o got.nodes[cur].possible_prev_nodes)
                 /\ pc' = "loop"
  /\ UNCHANGED << runner_vars, probe, instance_vars, context, context_changes, world, drifts,
                  context_checks, checked_actions, result, executor_vars >>
  /\ expanded' = expanded \cup {Head(child_nodes)}

\* lines 230-249: the node popped is expanded; its children join the open
\* collection, which is sorted again. A child's heuristic that raises ends plan()
PlanExpand ==
  /\ pc = "loop"
  /\ Len(child_nodes) # 0
  /\ ~over_loop_limit(loopcount + 1)
  /\ ~found_plan(start_worldstate, nodes[Head(child_nodes)])
  /\ loopcount' = loopcount + 1
  /\ current_node' = Head(child_nodes)
  /\ LET cur == Head(child_nodes)
         helpful_actions ==
           filter_matching_actions(nodes[cur].worldstate, checked_actions, start_worldstate)
         got == IF Len(nodes[cur].possible_prev_nodes) # 0
                THEN [nodes |-> nodes, raised |-> TRUE]
                ELSE get_child_nodes(nodes, cur, helpful_actions, start_worldstate)
     IN  /\ nodes' = got.nodes
         /\ IF got.raised
            THEN /\ child_nodes' = Tail(child_nodes)
                 /\ pc' = "raised"
            ELSE /\ child_nodes' =
                      sorted_by_total_cost(got.nodes,
                          Tail(child_nodes) \o got.nodes[cur].possible_prev_nodes)
                 /\ pc' = "loop"
  /\ UNCHANGED << runner_vars, probe, instance_vars, context, context_changes, world, drifts,
                  context_checks, checked_actions, result, executor_vars >>
  /\ expanded' = expanded \cup {Head(child_nodes)}

\* ------------------------------------------------------------ PlanExecutor
\* one call made by execute: op on the action of node, with the worldstate of
\* the node arg (publish_update is given the node itself)
Call(op, node, arg) == [op |-> op, node |-> node, arg |-> arg]

\* line 277
paths_agree(node) ==
  Len(node.parent_nodes_path_list) = Len(node.parent_actions_path_list)

\* lines 288-289 without the test of line 288
published_unasked(cs, node, given) == Append(cs, Call("publish_update", node, node))

\* lines 288-289
published(cs, node, given) ==
  IF given THEN Append(cs, Call("publish_update", node, node)) ELSE cs

\* line 291: the worldstate the preconditions are validated against
current_worldstate(ns, node) == ns[node].worldstate

\* the caller hands the plan to PlanExecutor().execute(start_node, introspector)
ExecBegin ==
  /\ pc = "found"
  /\ start_node' = result
  /\ introspector' \in BOOLEAN
  /\ calls' = << >>
  /\ success' = Pending
  /\ pc' = "exec"
  /\ UNCHANGED << runner_vars, probe, instance_vars, context, context_changes, world, drifts, planner_vars >>

\* lines 279-281 placed behind the introspector's update of lines 288-289
ExecGoalPublishes ==
  /\ pc = "exec"
  /\ paths_agree(nodes[start_node])
  /\ is_goal(nodes[start_node])
  /\ calls' = published(calls, start_node, introspector)
  /\ success' = TRUE
  /\ pc' = "executed"
  /\ UNCHANGED << runner_vars, probe, instance_vars, context, context_changes, world, drifts, planner_vars,
                  start_node, introspector >>

\* lines 279-281: the goal node is reached
ExecGoal ==
  /\ pc = "exec"
  /\ paths_agree(nodes[start_node])
  /\ is_goal(nodes[start_node])
  /\ success' = TRUE
  /\ pc' = "executed"
  /\ UNCHANGED << runner_vars, probe, instance_vars, context, context_changes, world, drifts, planner_vars,
                  start_node, introspector, calls >>

\* what Action.run(next_worldstate) may leave behind: the effect as planned,
\* or another value of an effect's condition, which run() writes into
\* next_worldstate as the real effect data
RunOutcomes(a) ==
  {<< >>} \cup {<< c, v >> : c \in DOMAIN ActionPool[a].eff, v \in Values}

\* the real world after run(): the effects, with the outcome's value
world_after_run(w, a, outcome) ==
  [c \in DOMAIN w |->
     IF outcome # << >> /\ c = outcome[1] THEN outcome[2]
     ELSE IF c \in DOMAIN ActionPool[a].eff THEN ActionPool[a].eff[c]
     ELSE w[c]]

\* lines 291-296: the action is valid, its context holds: it is run on the
\* next node's worldstate and execute goes on with the next node
ExecRun ==
  /\ pc = "exec"
  /\ paths_agree(nodes[start_node])
  /\ ~is_goal(nodes[start_node])
  /\ LET action == nodes[start_node].action
         next_node == parent_node(nodes[start_node])
     IN  /\ is_valid(action, current_worldstate(nodes, start_node))
         /\ context[action]
         /\ calls' = published(calls, start_node, introspector)
                        \o << Call("is_valid", start_node, start_node),
                              Call("check_freeform_context", start_node, start_node),
                              Call("run", start_node, next_node) >>
         /\ \E outcome \in RunOutcomes(action) :
               /\ outcome # << >> => outcome[2] # ActionPool[action].eff[outcome[1]]
               /\ world' = world_after_run(world, action, outcome)
               /\ nodes' = IF outcome = << >> THEN nodes
                           ELSE [nodes EXCEPT ![next_node].worldstate =
                                    set_condition_value(@, outcome[1], outcome[2])]
         /\ start_node' = next_node
  /\ UNCHANGED << runner_vars, probe, instance_vars, context, context_changes, drifts, pc,
                  context_checks, checked_actions, child_nodes, loopcount, current_node,
                  result, expanded, introspector, success >>

\* lines 291, 300-305: the action is not valid to the worldstate
ExecAbortInvalid ==
  /\ pc = "exec"
  /\ paths_agree(nodes[start_node])
  /\ ~is_goal(nodes[start_node])
  /\ ~is_valid(nodes[start_node].action, current_worldstate(nodes, start_node))
  /\ calls' = Append(published(calls, start_node, introspector),
                     Call("is_valid", start_node, start_node))
  /\ success' = FALSE
  /\ pc' = "executed"
  /\ UNCHANGED << runner_vars, probe, instance_vars, context, context_changes, world, drifts, planner_vars,
                  start_node, introspector >>

\* lines 297-305 falling through to a return True
ExecContextFailureReturnsTrue ==
  /\ pc = "exec"
  /\ ~is_goal(nodes[start_node])
  /\ is_valid(nodes[start_node].action, nodes[start_node].worldstate)
  /\ ~context[nodes[start_node].action]
  /\ calls' = Append(calls, [op |-> "is_valid", node |-> start_node, arg |-> start_node])
                 \o << [op |-> "check_freeform_context", node |-> start_node, arg |-> start_node] >>
  /\ success' = TRUE
  /\ pc' = "executed"
  /\ UNCHANGED << runner_vars, probe, instance_vars, context, context_changes, world, drifts, planner_vars,
                  start_node, introspector >>

\* lines 292, 297-305: the action's freeform context does not hold
ExecAbortContext ==
  /\ pc = "exec"
  /\ paths_agree(nodes[start_node])
  /\ ~is_goal(nodes[start_node])
  /\ is_valid(nodes[start_node].action, current_worldstate(nodes, start_node))
  /\ ~context[nodes[start_node].action]
  /\ calls' = published(calls, start_node, introspector)
                 \o << Call("is_valid", start_node, start_node),
                       Call("check_freeform_context", start_node, start_node) >>
  /\ success' = FALSE
  /\ pc' = "executed"
  /\ UNCHANGED << runner_vars, probe, instance_vars, context, context_changes, world, drifts, planner_vars,
                  start_node, introspector >>

\* ------------------------------------------------------------ calls on nodes
\* the test of line 103 written as a truth test of the value
heuristic_is_falsy(node) == node.heuristic_distance \in {NoneH, 0}

\* line 103: self.heuristic_distance is None
heuristic_is_none(node) == node.heuristic_distance = NoneH

\* line 154: len(self.possible_prev_nodes) == 0
has_no_child_nodes(node) == Len(node.possible_prev_nodes) = 0

\* the nodes a caller holds after plan(): Planner.last_goal_node, the node
\* plan() returned and the nodes of its path
HeldNodes ==
  {1} \cup (IF result = None THEN {}
            ELSE {result} \cup {nodes[result].parent_nodes_path_list[i] :
                                  i \in DOMAIN nodes[result].parent_nodes_path_list})

\* a caller that holds the nodes of a finished plan() calls
\* node.get_child_nodes(actions, start_worldstate) on one of them
GetChildNodesAgain ==
  /\ pc \in {"found", "no_plan"}
  /\ \E node \in HeldNodes, acts \in {<< >>, checked_actions} :
        LET got == IF ~has_no_child_nodes(nodes[node])
                   THEN [nodes |-> nodes, raised |-> TRUE]
                   ELSE get_child_nodes(nodes, node, acts, start_worldstate)
        IN  /\ nodes' = got.nodes
            /\ expanded' = expanded \cup {node}
            /\ probe' = [op |-> "get_child_nodes", node |-> node,
                         first |-> node \in expanded,
                         asserted |-> ~has_no_child_nodes(nodes[node])]
  /\ pc' = "probed"
  /\ UNCHANGED << runner_vars, instance_vars, context, context_changes, world, drifts,
                  context_checks, checked_actions, child_nodes, loopcount, current_node,
                  result, executor_vars >>

\* the same caller calls node._calc_heuristic_distance_for_node(start_worldstate)
CalcHeuristicAgain ==
  /\ pc \in {"found", "no_plan"}
  /\ \E node \in HeldNodes :
        /\ probe' = [op |-> "calc_heuristic", node |-> node,
                     first |-> nodes[node].heuristic_distance # NoneH,
                     asserted |-> ~heuristic_is_none(nodes[node])]
        /\ nodes' = IF ~heuristic_is_none(nodes[node])
                       \/ heuristic_raises(nodes, nodes[node], start_worldstate)
                    THEN nodes
                    ELSE [nodes EXCEPT ![node].heuristic_distance =
                            calc_heuristic_distance_for_node(nodes, nodes[node], start_worldstate)]
  /\ pc' = "probed"
  /\ UNCHANGED << runner_vars, instance_vars, context, context_changes, world, drifts,
                  context_checks, checked_actions, child_nodes, loopcount, current_node,
                  result, expanded, executor_vars >>

Next ==
  \/ ContextChange
  \/ Drift
  \/ PlanStart
  \/ PlanNoNodesLeft
  \/ PlanLoopLimit
  \/ PlanFound
  \/ PlanExpand
  \/ ExecBegin
  \/ ExecGoal
  \/ ExecRun
  \/ ExecAbortInvalid
  \/ ExecAbortContext
  \/ GetChildNodesAgain
  \/ CalcHeuristicAgain

Spec == Init /\ [][Next]_vars

\* ------------------------------------------------------------ Runner
\* how many tries a caller asks update_and_plan() for
MaxTries == 2

\* the goals a Runner is given: conditions and usability
GoalPool ==
  [ OpenTheDoor |-> [conditions |-> WS1("door", 1),    usability |-> 2],
    ReachTheTop |-> [conditions |-> WS1("x", 2),       usability |-> 2],
    BeAtTheDoor |-> [conditions |-> WS1("at_door", 1), usability |-> 3] ]

GoalNames == DOMAIN GoalPool

\* the lists of goals plan_and_execute_goals() is called with
GoalLists ==
  { << "OpenTheDoor" >>,
    << "OpenTheDoor", "BeAtTheDoor" >>,
    << "ReachTheTop", "OpenTheDoor" >>,
    << "BeAtTheDoor", "ReachTheTop" >> }

\* the catalogs of the Runner's config module; none has a cycle of effects,
\* so that no plan() of these runs comes near the loop limit
RunnerCatalogs ==
  { {"WalkToDoor"},
    {"WalkToDoor", "OpenDoor"},
    {"StepUp", "Climb", "Escape"} }

\* the real world when the Runner is built
RunnerStarts == { WS3(0, 0, 0), WS3(1, 0, 1) }

environment_vars == << context, context_changes, world, drifts >>

\* Runner.__init__: an empty worldstate, the actions of the config module, a
\* Planner without goal, _last_goal and _preempt_requested unset; an
\* RGOAPRunnerState may be built on the Runner
RunnerInit ==
  /\ actions \in RunnerCatalogs
  /\ start_worldstate = EmptyWorldState
  /\ goal = EmptyWorldState
  /\ context = [a \in ActionNames |-> TRUE]
  /\ context_changes = 0
  /\ world \in RunnerStarts
  /\ drifts = 0
  /\ pc = "constructed"
  /\ context_checks = [a \in ActionNames |-> << >>]
  /\ checked_actions = << >>
  /\ nodes = << >>
  /\ child_nodes = << >>
  /\ loopcount = 0
  /\ current_node = None
  /\ result = None
  /\ expanded = {}
  /\ start_node = None
  /\ introspector = FALSE
  /\ calls = << >>
  /\ success = Pending
  /\ probe = NoProbe
  /\ rpc = "ready"
  /\ method = "none"
  /\ runner_goal = NoGoal
  /\ tries = 0
  /\ tries_left = 0
  /\ goals = << >>
  /\ goal_index = 0
  /\ last_goal = NoGoal
  /\ preempt_requested = FALSE
  /\ runner_outcome = Pending
  /\ updates = 0
  /\ plan_calls = 0
  /\ exec_calls = 0
  /\ runner_calls = 0
  /\ previous_call = NoCall
  /\ smach_pc = "idle"
  /\ smach_outcome = Pending
  /\ smach_preempt_requested = FALSE

\* Runner.request_preempt(), called by another thread at any time
RequestPreempt ==
  /\ rpc \notin {"none", "returned"}
  /\ ~preempt_requested
  /\ preempt_requested' = TRUE
  /\ UNCHANGED << history_vars, bridge_vars, instance_vars, environment_vars, pc, planner_vars, executor_vars, probe,
                  rpc, method, runner_goal, tries, tries_left, goals, goal_index, last_goal,
                  runner_outcome, updates, plan_calls, exec_calls >>

\* Runner._update_worldstate(): the worldstate is set to reality
update_worldstate ==
  /\ start_worldstate' = world
  /\ updates' = updates + 1

\* Runner.plan(goal): planner.plan(goal=goal) is called
RunnerPlan(g) ==
  /\ goal' = GoalPool[g].conditions
  /\ plan_calls' = plan_calls + 1
  /\ pc' = "idle"

\* Runner.execute(start_node, introspection): PlanExecutor().execute(start_node)
\* is called, without introspector
RunnerExecute ==
  /\ start_node' = result
  /\ introspector' = FALSE
  /\ calls' = << >>
  /\ success' = Pending
  /\ exec_calls' = exec_calls + 1
  /\ pc' = "exec"

\* what Runner.execute() returns: the bool of PlanExecutor.execute
executed_outcome(b) == IF b THEN "True" ELSE "False"

\* lines 161 and 191: outcome == 'aborted'
is_aborted(o) == o = "aborted"

\* goals.sort(key=usability, reverse=True): g goes behind every member of the
\* sorted list whose usability is not lower than its own
RECURSIVE InsertByUsability(_, _)
InsertByUsability(sorted, g) ==
  IF sorted = << >> THEN << g >>
  ELSE IF GoalPool[Head(sorted)].usability >= GoalPool[g].usability
       THEN << Head(sorted) >> \o InsertByUsability(Tail(sorted), g)
       ELSE << g >> \o sorted

RECURSIVE SortByUsability(_, _)
SortByUsability(sorted, rest) ==
  IF rest = << >> THEN sorted
  ELSE SortByUsability(InsertByUsability(sorted, Head(rest)), Tail(rest))

\* how many calls of Runner methods the caller makes
MaxRunnerCalls == 2

\* the caller calls update_and_plan(goal, tries)
CallUpdateAndPlan ==
  /\ rpc = "ready"
  /\ \E g \in GoalNames, t \in 1..MaxTries :
        /\ runner_goal' = g
        /\ tries' = t
        /\ tries_left' = t
  /\ method' = "update_and_plan"
  /\ rpc' = "update_and_plan"
  /\ runner_calls' = runner_calls + 1
  /\ UNCHANGED previous_call
  /\ UNCHANGED << bridge_vars, instance_vars, environment_vars, pc, planner_vars, executor_vars, probe,
                  goals, goal_index, last_goal, preempt_requested, runner_outcome,
                  updates, plan_calls, exec_calls >>

\* update_and_plan(), lines 112-115: one more try; the worldstate is updated
\* and plan() is called
UpdateAndPlanTry ==
  /\ rpc = "update_and_plan"
  /\ tries_left > 0
  /\ tries_left' = tries_left - 1
  /\ update_worldstate
  /\ RunnerPlan(runner_goal)
  /\ rpc' = "update_and_plan: plan"
  /\ UNCHANGED << history_vars, bridge_vars, actions, environment_vars, planner_vars, executor_vars, probe,
                  method, runner_goal, tries, goals, goal_index, last_goal,
                  preempt_requested, runner_outcome, exec_calls >>

\* the loop of lines 112-119 without the break of lines 116-117
plan_again_without_break(node, left) == left > 0

\* lines 112-119: update_and_plan() tries again when plan() returned None and
\* tries are left
plan_again(node, left) == node = None /\ left > 0

\* plan() has returned to update_and_plan(), lines 116-120: another try, or
\* start_node is returned: to the caller, or to update_and_plan_and_execute(),
\* which returns 'aborted' for None (lines 184-187) and calls execute() on a
\* node (line 189)
UpdateAndPlanPlanned ==
  /\ rpc = "update_and_plan: plan"
  /\ pc \in {"found", "no_plan"}
  /\ IF plan_again(result, tries_left)
     THEN /\ rpc' = "update_and_plan"
          /\ UNCHANGED << pc, executor_vars, runner_outcome, exec_calls >>
     ELSE IF method = "update_and_plan"
     THEN /\ rpc' = "returned"
          /\ runner_outcome' = IF result = None THEN "None" ELSE "start_node"
          /\ UNCHANGED << pc, executor_vars, exec_calls >>
     ELSE IF result = None
     THEN /\ rpc' = "returned"
          /\ runner_outcome' = "aborted"
          /\ UNCHANGED << pc, executor_vars, exec_calls >>
     ELSE /\ rpc' = "update_and_plan_and_execute: execute"
          /\ RunnerExecute
          /\ UNCHANGED runner_outcome
  /\ UNCHANGED << history_vars, bridge_vars, instance_vars, environment_vars, planner_vars, probe,
                  method, runner_goal, tries, tries_left, goals, goal_index, last_goal,
                  preempt_requested, updates, plan_calls >>

\* the caller calls update_and_plan_and_execute(goal, tries)
CallUpdateAndPlanAndExecute ==
  /\ rpc = "ready"
  /\ \E g \in GoalNames, t \in 1..MaxTries :
        /\ runner_goal' = g
        /\ tries' = t
  /\ method' = "update_and_plan_and_execute"
  /\ rpc' = "update_and_plan_and_execute"
  /\ runner_calls' = runner_calls + 1
  /\ UNCHANGED previous_call
  /\ UNCHANGED << bridge_vars, instance_vars, environment_vars, pc, planner_vars, executor_vars, probe,
                  tries_left, goals, goal_index, last_goal, preempt_requested,
                  runner_outcome, updates, plan_calls, exec_calls >>

\* update_and_plan_and_execute(), lines 177-182: the head of the loop. On
\* shutdown the loop ends and outcome is returned; a preemption request is
\* serviced; else update_and_plan(goal, tries) is called
UpdateAndPlanAndExecuteLoop ==
  /\ rpc = "update_and_plan_and_execute"
  /\ \E is_shutdown \in BOOLEAN :
        IF is_shutdown
        THEN /\ rpc' = "returned"
             /\ runner_outcome' = IF exec_calls = 0 THEN "None" ELSE executed_outcome(success)
             /\ UNCHANGED << preempt_requested, tries_left >>
        ELSE IF preempt_requested
        THEN /\ preempt_requested' = FALSE
             /\ rpc' = "returned"
             /\ runner_outcome' = "preempted"
             /\ UNCHANGED tries_left
        ELSE /\ tries_left' = tries
             /\ rpc' = "update_and_plan"
             /\ UNCHANGED << preempt_requested, runner_outcome >>
  /\ UNCHANGED << history_vars, bridge_vars, instance_vars, environment_vars, pc, planner_vars, executor_vars, probe,
                  method, runner_goal, tries, goals, goal_index, last_goal,
                  updates, plan_calls, exec_calls >>

\* execute() has returned to update_and_plan_and_execute(), lines 189-204:
\* an outcome other than 'aborted' is returned; after 'aborted' the worldstate
\* is updated and the loop goes on
UpdateAndPlanAndExecuteExecuted ==
  /\ rpc = "update_and_plan_and_execute: execute"
  /\ pc = "executed"
  /\ IF ~is_aborted(executed_outcome(success))
     THEN /\ rpc' = "returned"
          /\ runner_outcome' = executed_outcome(success)
          /\ UNCHANGED << start_worldstate, updates >>
     ELSE /\ update_worldstate
          /\ rpc' = "update_and_plan_and_execute"
          /\ UNCHANGED runner_outcome
  /\ UNCHANGED << history_vars, bridge_vars, actions, goal, environment_vars, pc, planner_vars, executor_vars, probe,
                  method, runner_goal, tries, tries_left, goals, goal_index, last_goal,
                  preempt_requested, plan_calls, exec_calls >>

\* the caller calls plan_and_execute_goals(goals), lines 133-136: the
\* worldstate is updated and the goals are sorted
CallPlanAndExecuteGoals ==
  /\ rpc = "ready"
  /\ \E given \in GoalLists : goals' = SortByUsability(<< >>, given)
  /\ goal_index' = 1
  /\ update_worldstate
  /\ method' = "plan_and_execute_goals"
  /\ rpc' = "plan_and_execute_goals"
  /\ runner_calls' = runner_calls + 1
  /\ UNCHANGED previous_call
  /\ UNCHANGED << bridge_vars, actions, goal, environment_vars, pc, planner_vars, executor_vars, probe,
                  runner_goal, tries, tries_left, last_goal, preempt_requested,
                  runner_outcome, plan_calls, exec_calls >>

\* plan_and_execute_goals(), lines 142-151 and 167-170: the head of the for
\* loop. After the last goal 'aborted' is returned; the goal used last time
\* is skipped; a preemption request is serviced; else plan(goal) is called
PlanAndExecuteGoalsLoop ==
  /\ rpc = "plan_and_execute_goals"
  /\ IF goal_index > Len(goals)
     THEN /\ rpc' = "returned"
          /\ runner_outcome' = "aborted"
          /\ UNCHANGED << goal, pc, goal_index, preempt_requested, plan_calls >>
     ELSE IF last_goal = goals[goal_index]
     THEN /\ goal_index' = goal_index + 1
          /\ UNCHANGED << goal, pc, rpc, preempt_requested, runner_outcome, plan_calls >>
     ELSE IF preempt_requested
     THEN /\ preempt_requested' = FALSE
          /\ rpc' = "returned"
          /\ runner_outcome' = "preempted"
          /\ UNCHANGED << goal, pc, goal_index, plan_calls >>
     ELSE /\ RunnerPlan(goals[goal_index])
          /\ rpc' = "plan_and_execute_goals: plan"
          /\ UNCHANGED << goal_index, preempt_requested, runner_outcome >>
  /\ UNCHANGED << history_vars, bridge_vars, actions, start_worldstate, environment_vars, planner_vars, executor_vars,
                  probe, method, runner_goal, tries, tries_left, goals, last_goal,
                  updates, exec_calls >>

\* lines 151-159 with the goal remembered as soon as plan() has returned,
\* whether a plan was found or not
PlanAndExecuteGoalsPlannedRemembersAll ==
  /\ rpc = "plan_and_execute_goals: plan"
  /\ pc \in {"found", "no_plan"}
  /\ last_goal' = goals[goal_index]
  /\ IF result = None
     THEN /\ goal_index' = goal_index + 1
          /\ rpc' = "plan_and_execute_goals"
          /\ UNCHANGED << pc, executor_vars, exec_calls >>
     ELSE /\ RunnerExecute
          /\ rpc' = "plan_and_execute_goals: execute"
          /\ UNCHANGED goal_index
  /\ UNCHANGED << history_vars, bridge_vars, instance_vars, environment_vars, planner_vars, probe,
                  method, runner_goal, tries, tries_left, goals, preempt_requested,
                  runner_outcome, updates, plan_calls >>

\* plan() has returned to plan_and_execute_goals(), lines 152-159: without a
\* plan the next goal is tried; else the goal becomes _last_goal and the plan
\* is executed
PlanAndExecuteGoalsPlanned ==
  /\ rpc = "plan_and_execute_goals: plan"
  /\ pc \in {"found", "no_plan"}
  /\ IF result = None
     THEN /\ goal_index' = goal_index + 1
          /\ rpc' = "plan_and_execute_goals"
          /\ UNCHANGED << pc, executor_vars, last_goal, exec_calls >>
     ELSE /\ last_goal' = goals[goal_index]
          /\ RunnerExecute
          /\ rpc' = "plan_and_execute_goals: execute"
          /\ UNCHANGED goal_index
  /\ UNCHANGED << history_vars, bridge_vars, instance_vars, environment_vars, planner_vars, probe,
                  method, runner_goal, tries, tries_left, goals, preempt_requested,
                  runner_outcome, updates, plan_calls >>

\* execute() has returned to plan_and_execute_goals(), lines 159-165: after
\* 'aborted' the next goal is tried, any other outcome is returned
PlanAndExecuteGoalsExecuted ==
  /\ rpc = "plan_and_execute_goals: execute"
  /\ pc = "executed"
  /\ IF is_aborted(executed_outcome(success))
     THEN /\ goal_index' = goal_index + 1
          /\ rpc' = "plan_and_execute_goals"
          /\ UNCHANGED runner_outcome
     ELSE /\ rpc' = "returned"
          /\ runner_outcome' = executed_outcome(success)
          /\ UNCHANGED goal_index
  /\ UNCHANGED << history_vars, bridge_vars, instance_vars, environment_vars, pc, planner_vars, executor_vars, probe,
                  method, runner_goal, tries, tries_left, goals, last_goal,
                  preempt_requested, updates, plan_calls, exec_calls >>

\* the caller calls plan_and_execute_goals(goals) again once the call before
\* has returned, lines 133-136: the Runner keeps _last_goal between calls;
\* the plan and the PlanExecutor of the call before are gone
CallPlanAndExecuteGoalsAgain ==
  /\ rpc = "returned"
  /\ method = "plan_and_execute_goals"
  /\ smach_pc = "idle"
  /\ runner_calls < MaxRunnerCalls
  /\ previous_call' = [goals |-> goals, plan_calls |-> plan_calls, exec_calls |-> exec_calls]
  /\ \E given \in GoalLists : goals' = SortByUsability(<< >>, given)
  /\ goal_index' = 1
  /\ start_worldstate' = world
  /\ updates' = 1
  /\ plan_calls' = 0
  /\ exec_calls' = 0
  /\ runner_outcome' = Pending
  /\ rpc' = "plan_and_execute_goals"
  /\ runner_calls' = runner_calls + 1
  /\ pc' = "constructed"
  /\ context_checks' = [a \in ActionNames |-> << >>]
  /\ checked_actions' = << >>
  /\ nodes' = << >>
  /\ child_nodes' = << >>
  /\ loopcount' = 0
  /\ current_node' = None
  /\ result' = None
  /\ expanded' = {}
  /\ start_node' = None
  /\ introspector' = FALSE
  /\ calls' = << >>
  /\ success' = Pending
  /\ UNCHANGED << bridge_vars, actions, goal, environment_vars, probe,
                  method, runner_goal, tries, tries_left, last_goal, preempt_requested >>

\* RGOAPRunnerState.execute() of a subclass with _build_goal, lines 112-114
\* and 127: update_and_plan_and_execute(goal, introspection=True) is called
\* with the default tries=1
RunnerStateExecuteGoal ==
  /\ rpc = "ready"
  /\ smach_pc = "idle"
  /\ \E g \in GoalNames : runner_goal' = g
  /\ tries' = 1
  /\ method' = "update_and_plan_and_execute"
  /\ rpc' = "update_and_plan_and_execute"
  /\ smach_pc' = "execute"
  /\ runner_calls' = runner_calls + 1
  /\ UNCHANGED << previous_call, smach_outcome, smach_preempt_requested,
                  instance_vars, environment_vars, pc, planner_vars, executor_vars, probe,
                  tries_left, goals, goal_index, last_goal, preempt_requested,
                  runner_outcome, updates, plan_calls, exec_calls >>

\* RGOAPRunnerState.execute() of a subclass with _build_goals only, lines
\* 115-125: plan_and_execute_goals(goals) is called
RunnerStateExecuteGoals ==
  /\ rpc = "ready"
  /\ smach_pc = "idle"
  /\ \E given \in GoalLists : goals' = SortByUsability(<< >>, given)
  /\ goal_index' = 1
  /\ update_worldstate
  /\ method' = "plan_and_execute_goals"
  /\ rpc' = "plan_and_execute_goals"
  /\ smach_pc' = "execute"
  /\ runner_calls' = runner_calls + 1
  /\ UNCHANGED << previous_call, smach_outcome, smach_preempt_requested,
                  actions, goal, environment_vars, pc, planner_vars, executor_vars, probe,
                  runner_goal, tries, tries_left, last_goal, preempt_requested,
                  runner_outcome, plan_calls, exec_calls >>

\* RGOAPRunnerState.request_preempt(), called by another thread while the
\* state executes: the Runner's flag and the State's flag are set
RunnerStateRequestPreempt ==
  /\ smach_pc = "execute"
  /\ ~smach_preempt_requested
  /\ preempt_requested' = TRUE
  /\ smach_preempt_requested' = TRUE
  /\ UNCHANGED << history_vars, smach_pc, smach_outcome,
                  instance_vars, environment_vars, pc, planner_vars, executor_vars, probe,
                  rpc, method, runner_goal, tries, tries_left, goals, goal_index, last_goal,
                  runner_outcome, updates, plan_calls, exec_calls >>

\* RGOAPRunnerState.execute(), lines 130-134, once the Runner has returned:
\* a requested preemption is serviced (both flags are cleared) and
\* 'preempted' is returned, else the Runner's outcome is returned as it is
RunnerStateReturn ==
  /\ smach_pc = "execute"
  /\ rpc = "returned"
  /\ smach_pc' = "returned"
  /\ IF smach_preempt_requested
     THEN /\ preempt_requested' = FALSE
          /\ smach_preempt_requested' = FALSE
          /\ smach_outcome' = "preempted"
     ELSE /\ smach_outcome' = runner_outcome
          /\ UNCHANGED << preempt_requested, smach_preempt_requested >>
  /\ UNCHANGED << history_vars, instance_vars, environment_vars, pc, planner_vars, executor_vars, probe,
                  rpc, method, runner_goal, tries, tries_left, goals, goal_index, last_goal,
                  runner_outcome, updates, plan_calls, exec_calls >>

\* a Runner at work: the calls of its methods, the Planner and the
\* PlanExecutor they use, the freeform contexts and the preemption requests
\* of another thread. The real world changes through run() only
RunnerNext ==
  \/ ContextChange
  \/ RequestPreempt
  \/ CallUpdateAndPlan
  \/ UpdateAndPlanTry
  \/ UpdateAndPlanPlanned
  \/ CallUpdateAndPlanAndExecute
  \/ UpdateAndPlanAndExecuteLoop
  \/ UpdateAndPlanAndExecuteExecuted
  \/ CallPlanAndExecuteGoals
  \/ PlanAndExecuteGoalsLoop
  \/ PlanAndExecuteGoalsPlanned
  \/ PlanAndExecuteGoalsExecuted
  \/ CallPlanAndExecuteGoalsAgain
  \/ RunnerStateExecuteGoal
  \/ RunnerStateExecuteGoals
  \/ RunnerStateRequestPreempt
  \/ RunnerStateReturn
  \/ PlanStart
  \/ PlanNoNodesLeft
  \/ PlanFound
  \/ PlanExpand
  \/ ExecGoal
  \/ ExecRun
  \/ ExecAbortInvalid
  \/ ExecAbortContext

RunnerSpec == RunnerInit /\ [][RunnerNext]_vars

\* ------------------------------------------------------------ properties
Range(s) == {s[i] : i \in DOMAIN s}

Reverse(s) == [i \in 1..Len(s) |-> s[Len(s) + 1 - i]]

\* the nodes visited from node on by following parent_node() up to the goal node
RECURSIVE ForwardWalk(_, _)
ForwardWalk(ns, node) ==
  IF is_goal(ns[node]) THEN << node >>
  ELSE << node >> \o ForwardWalk(ns, parent_node(ns[node]))

\* the actions that walk executes: the action of every node but the goal node
ForwardActions(ns, node) ==
  LET walk == ForwardWalk(ns, node)
  IN  [i \in 1..(Len(walk) - 1) |-> ns[walk[i]].action]

RECURSIVE SumActionCosts(_)
SumActionCosts(acts) ==
  IF acts = << >> THEN 0 ELSE cost_of(Head(acts)) + SumActionCosts(Tail(acts))

\* plan() has just returned or raised
PlanEnded == pc \in {"found", "no_plan", "raised"}

\* C1: a node plan() returns is matched by the start worldstate; following
\* parent_node() from it visits its parent_nodes_path_list in reverse and ends
\* at the goal node, the only node whose action is unset
C1_PlanSound ==
  pc = "found" =>
    /\ result # None
    /\ result \in DOMAIN nodes
    /\ matches(start_worldstate, nodes[result].worldstate)
    /\ ForwardWalk(nodes, result) =
         << result >> \o Reverse(nodes[result].parent_nodes_path_list)
    /\ LET walk == ForwardWalk(nodes, result)
       IN  /\ is_goal(nodes[walk[Len(walk)]])
           /\ \A i \in DOMAIN nodes : is_goal(nodes[i]) <=> i = walk[Len(walk)]

\* a plan of two actions or more is returned
C1_Witness ==
  /\ pc = "found"
  /\ Len(nodes[result].parent_nodes_path_list) >= 2

\* the actions a forward run of the catalog can reach the goal with: the
\* worldstates reachable from the start worldstate by valid actions
Forward(ws, a) ==
  [c \in DOMAIN ws |-> IF c \in DOMAIN ActionPool[a].eff THEN ActionPool[a].eff[c] ELSE ws[c]]

RECURSIVE Reachable(_, _)
Reachable(S, acts) ==
  LET step == S \cup UNION {{Forward(ws, a) : a \in {b \in acts : is_valid(b, ws)}} : ws \in S}
  IN  IF step = S THEN S ELSE Reachable(step, acts)

\* some sequence of usable actions, each valid when it is run, leads from the
\* start worldstate to a worldstate that satisfies the goal
Solvable ==
  \E ws \in Reachable({start_worldstate}, Range(checked_actions)) : matches(ws, goal)

\* a needs b: an effect of b produces a precondition of a
Needs(a, b) ==
  \E c \in (DOMAIN ActionPool[a].pre) \cap (DOMAIN ActionPool[b].eff) :
      ActionPool[a].pre[c] = ActionPool[b].eff[c]

RECURSIVE NeedsWithin(_, _, _, _)
NeedsWithin(a, b, acts, n) ==
  \/ Needs(a, b)
  \/ /\ n > 1
     /\ \E m \in acts : Needs(a, m) /\ NeedsWithin(m, b, acts, n - 1)

\* the effect chains of the usable actions are acyclic (and so not longer
\* than the catalog, far below the loop limit)
AcyclicChains ==
  LET acts == Range(checked_actions)
  IN  \A a \in acts : ~NeedsWithin(a, a, acts, Cardinality(acts))

\* C2: for a solvable problem with acyclic effect chains plan() returns a
\* node; its forward walk ends at the goal node
C2_PlanComplete ==
  (PlanEnded /\ Solvable /\ AcyclicChains) =>
    /\ pc \notin {"no_plan", "raised"}
    /\ result # None
    /\ is_goal(nodes[ForwardWalk(nodes, result)[Len(ForwardWalk(nodes, result))]])

\* the same without the runs in which a child's heuristic raised
C2_PlanCompleteUnlessRaised ==
  (PlanEnded /\ pc # "raised" /\ Solvable /\ AcyclicChains) =>
    /\ pc # "no_plan"
    /\ result # None

\* C3: path_cost() of the node plan() returns is the sum of the costs of the
\* actions on the forward walk from it to the goal node
C3_PathCost ==
  pc = "found" =>
    path_cost(nodes, nodes[result]) = SumActionCosts(ForwardActions(nodes, result))

\* a plan of two actions of different cost is returned
C3_Witness ==
  /\ pc = "found"
  /\ Len(ForwardActions(nodes, result)) >= 2
  /\ \E i, j \in DOMAIN ForwardActions(nodes, result) :
        cost_of(ForwardActions(nodes, result)[i]) # cost_of(ForwardActions(nodes, result)[j])

\* the door scenario, with both actions usable when plan() filters them
DoorScenario ==
  /\ actions = {"WalkToDoor", "OpenDoor"}
  /\ start_worldstate = WS3(0, 0, 0)
  /\ goal = WS1("door", 1)
  /\ Range(checked_actions) = actions

\* C4: in the door scenario plan() returns the plan WalkToDoor, OpenDoor, of
\* path cost 2
C4_DoorScenario ==
  (DoorScenario /\ PlanEnded) =>
    /\ pc \notin {"no_plan", "raised"}
    /\ result # None
    /\ ForwardActions(nodes, result) = << "WalkToDoor", "OpenDoor" >>
    /\ path_cost(nodes, nodes[result]) = 2

\* plan() has returned in the door scenario
C4_Witness ==
  /\ DoorScenario
  /\ pc = "found"

\* C5: plan() pops at most LoopLimit nodes: when the iteration after the
\* LoopLimit-th begins it returns None, with nodes still open; it never stops
\* with nodes open before that, and a node found up to the LoopLimit-th pop is
\* returned. Every step of the loop counts one iteration more or ends plan()
C5_LoopLimitState ==
  /\ loopcount <= LoopLimit + 1
  /\ loopcount > LoopLimit => (pc \in {"no_plan", "probed"} /\ result = None)
  /\ (pc = "no_plan" /\ Len(child_nodes) # 0) => loopcount = LoopLimit + 1
  /\ pc = "found" => (loopcount <= LoopLimit /\ result = current_node /\ result # None)

C5_LoopLimitStep ==
  (pc = "loop" /\ << nodes, child_nodes, loopcount, result, pc >>'
                    # << nodes, child_nodes, loopcount, result, pc >>)
     => \/ (loopcount' = loopcount + 1 /\ loopcount' <= LoopLimit)
        \/ (pc' = "no_plan" /\ result' = None)

C5_LoopLimit == [](C5_LoopLimitState) /\ [][C5_LoopLimitStep]_vars

\* the loop limit is hit: plan() gives up with nodes still open
C5_Witness ==
  /\ pc = "no_plan"
  /\ loopcount = LoopLimit + 1
  /\ Len(child_nodes) # 0

\* no action of the catalog produces the value the goal wants for one of its
\* conditions, and the start worldstate does not satisfy the goal
NoActionProducesGoal ==
  /\ \A a \in actions : \A c \in (DOMAIN goal) \cap (DOMAIN ActionPool[a].eff) :
        ActionPool[a].eff[c] # goal[c]
  /\ ~matches(start_worldstate, goal)

\* C6: when no action produces the goal and the start worldstate does not
\* match it, plan() returns None once the open collection is empty (after the
\* goal node was popped), without raising and with no other node built
C6_NoPlan ==
  (NoActionProducesGoal /\ PlanEnded) =>
    /\ pc = "no_plan"
    /\ result = None
    /\ child_nodes = << >>
    /\ loopcount = 1
    /\ Len(nodes) = 1

\* plan() has returned for a catalog of actions none of which produces the goal
C6_Witness ==
  /\ NoActionProducesGoal
  /\ actions # {}
  /\ pc = "no_plan"

\* C7: an action whose check_freeform_context() was false when plan()
\* filtered the catalog is the action of no node; plan() asks each action once
C7_FilteredOut ==
  /\ \A a \in ActionNames : Len(context_checks[a]) <= 1
  /\ \A i \in DOMAIN nodes :
        ~is_goal(nodes[i]) =>
           /\ context_checks[nodes[i].action] # << >>
           /\ context_checks[nodes[i].action][1]

\* plan() has ended without an action that was filtered out, although the
\* action would have produced the goal and its context holds again
C7_Witness ==
  /\ PlanEnded
  /\ \E a \in actions :
        /\ context_checks[a] = << FALSE >>
        /\ context[a]
        /\ has_satisfying_effects(a, nodes[1].worldstate, start_worldstate,
              get_unsatisfied_conditions(nodes[1].worldstate, start_worldstate))

\* node a is popped before node b: lower total_cost() first, and of two nodes
\* of the same total_cost() the one built (and so added) first
PoppedBefore(ns, a, b) ==
  LET cost_a == total_cost(ns, ns[a])
      cost_b == total_cost(ns, ns[b])
  IN  cost_a < cost_b \/ (cost_a = cost_b /\ a < b)

\* C8: the node an iteration pops has the lowest total_cost() of the open
\* collection and, among those of that cost, was added first
C8_SearchOrder ==
  [][(pc = "loop" /\ loopcount' = loopcount + 1 /\ loopcount' <= LoopLimit)
        => /\ current_node' \in Range(child_nodes)
           /\ \A n \in Range(child_nodes) \ {current_node'} :
                 PoppedBefore(nodes, current_node', n)]_vars

\* the open collection holds two nodes of the lowest total_cost(), the second
\* added in a later iteration than the first, and the first was popped
C8_Witness ==
  /\ pc \in {"loop", "found"}
  /\ current_node # None
  /\ ~is_goal(nodes[current_node])
  /\ \E n \in Range(child_nodes) :
        /\ total_cost(nodes, nodes[n]) = total_cost(nodes, nodes[current_node])
        /\ parent_node(nodes[n]) # parent_node(nodes[current_node])
        /\ n > current_node

\* C9: execute validates the preconditions of a step's action against the
\* live worldstate: a step whose action is not valid in the real world as it
\* is when the step begins is not run, execute aborts
C9_ValidatedAgainstLive ==
  [][(/\ pc = "exec"
      /\ ~is_goal(nodes[start_node])
      /\ ~is_valid(nodes[start_node].action, world)
      /\ calls' # calls)
        => (pc' = "executed" /\ success' = FALSE /\ start_node' = start_node)]_vars

\* the call log ends with the checks of a step that failed: is_valid answered
\* false, or is_valid answered true and check_freeform_context false
AbortedAt(node) ==
  LET last == calls[Len(calls)]
  IN  /\ last.node = node
      /\ \/ /\ last.op = "is_valid"
            /\ ~is_valid(nodes[node].action, nodes[node].worldstate)
         \/ /\ last.op = "check_freeform_context"
            /\ ~context[nodes[node].action]
            /\ calls[Len(calls) - 1] = Call("is_valid", node, node)

\* C10: a step whose is_valid or check_freeform_context fails makes execute
\* return False without running the step's action and without validating or
\* running the action of any later node; execute returns False only so, and
\* True only after every check of every step succeeded and its action was run
C10_AbortStops ==
  /\ (pc = "executed" /\ success = FALSE) =>
        LET node == calls[Len(calls)].node
        IN  /\ AbortedAt(node)
            /\ start_node = node
            /\ \A i \in DOMAIN calls :
                  /\ calls[i].node = node => calls[i].op # "run"
                  /\ calls[i].node \notin Range(nodes[node].parent_nodes_path_list)
  /\ (pc = "executed" /\ success = TRUE) =>
        /\ is_goal(nodes[start_node])
        /\ \A i \in DOMAIN calls :
              /\ calls[i].op = "is_valid" =>
                    (i + 1 <= Len(calls) /\ calls[i + 1].op = "check_freeform_context")
              /\ calls[i].op = "check_freeform_context" =>
                    (i + 1 <= Len(calls) /\ calls[i + 1].op = "run")
  /\ pc = "executed" => success \in BOOLEAN

\* execute has aborted at the second step or later: actions before the failing
\* one were run, the failing one and those after it were not
C10_Witness ==
  /\ pc = "executed"
  /\ success = FALSE
  /\ \E i \in DOMAIN calls : calls[i].op = "run"
  /\ ~is_goal(nodes[parent_node(nodes[start_node])])

\* C11: execute on a goal node returns True at once: it calls nothing on any
\* action or on the introspector and changes no worldstate, neither a node's
\* nor the real one
C11_GoalNodeExecute ==
  [][(pc = "exec" /\ is_goal(nodes[start_node]) /\ pc' # pc)
        => /\ pc' = "executed"
           /\ success' = TRUE
           /\ calls' = calls
           /\ nodes' = nodes
           /\ world' = world
           /\ start_node' = start_node]_vars

\* execute was called on the goal node itself, with an introspector, and has
\* returned True
C11_Witness ==
  /\ pc = "executed"
  /\ success = TRUE
  /\ result = 1
  /\ is_goal(nodes[start_node])
  /\ introspector
  /\ calls = << >>

\* plan() is past its setup: the goal node is built
PlanRunning == pc \in {"loop", "found", "no_plan", "raised"}

\* the conditions of the goal on which the start worldstate has another value
GoalDisagreements == {c \in DOMAIN goal : start_worldstate[c] # goal[c]}

C13_HeuristicBound ==
  PlanRunning =>
    \A i \in DOMAIN nodes :
       ~is_goal(nodes[i]) =>
          nodes[i].heuristic_distance <=
             HScale * Cardinality(get_unsatisfied_conditions(nodes[i].worldstate,
                                                             start_worldstate))

\* a node whose value overshoots: the contributions of its conditions add up
\* to more than their number
C13_Witness ==
  /\ PlanRunning
  /\ \E i \in DOMAIN nodes :
        /\ ~is_goal(nodes[i])
        /\ LET unsatisfied == get_unsatisfied_conditions(nodes[i].worldstate, start_worldstate)
           IN  SumOver(unsatisfied, nodes[i].worldstate, start_worldstate, nodes[1].worldstate)
                  > HScale * Cardinality(unsatisfied)

\* C16: the path lists of a node are the chain from the goal node up to the
\* node, the node excluded: the node is not in parent_nodes_path_list, its
\* action is not in parent_actions_path_list, the lists are equally long, and
\* empty for the goal node
C16_PathLists ==
  PlanRunning =>
    \A i \in DOMAIN nodes :
       /\ i \notin Range(nodes[i].parent_nodes_path_list)
       /\ nodes[i].action \notin Range(nodes[i].parent_actions_path_list)
       /\ Len(nodes[i].parent_nodes_path_list) = Len(nodes[i].parent_actions_path_list)
       /\ is_goal(nodes[i]) => (/\ nodes[i].parent_nodes_path_list = << >>
                                /\ nodes[i].parent_actions_path_list = << >>)
       /\ ~is_goal(nodes[i]) =>
             nodes[i].parent_nodes_path_list =
                Append(nodes[parent_node(nodes[i])].parent_nodes_path_list,
                       parent_node(nodes[i]))

\* what the lists are: parent_actions_path_list holds the actions of the
\* nodes behind the goal node on the chain and ends with the node's own action
C16_PathListsOwnAction ==
  PlanRunning =>
    \A i \in DOMAIN nodes :
       /\ i \notin Range(nodes[i].parent_nodes_path_list)
       /\ Len(nodes[i].parent_nodes_path_list) = Len(nodes[i].parent_actions_path_list)
       /\ is_goal(nodes[i]) => (/\ nodes[i].parent_nodes_path_list = << >>
                                /\ nodes[i].parent_actions_path_list = << >>)
       /\ ~is_goal(nodes[i]) =>
             /\ nodes[i].parent_nodes_path_list =
                   Append(nodes[parent_node(nodes[i])].parent_nodes_path_list,
                          parent_node(nodes[i]))
             /\ nodes[i].parent_actions_path_list =
                   Append(nodes[parent_node(nodes[i])].parent_actions_path_list,
                          nodes[i].action)

\* C14: a second call of get_child_nodes() on a node fails on the assertion,
\* whatever the first call was given, an empty list of actions included
C14_SecondCallFails ==
  (probe.op = "get_child_nodes" /\ probe.first) => probe.asserted

\* what the assertion does: the second call fails when the first call built
\* a child, and only then
C14_FailsAfterChildren ==
  [][(probe.op = "none" /\ probe'.op = "get_child_nodes")
        => (probe'.asserted <=> nodes[probe'.node].possible_prev_nodes # << >>)]_vars

\* C15: a second call of the heuristic computation on a node fails on the
\* assertion and leaves heuristic_distance as it was, a stored 0 included
C15_HeuristicOnce ==
  [][(probe.op = "none" /\ probe'.op = "calc_heuristic"
        /\ nodes[probe'.node].heuristic_distance # NoneH)
        => (probe'.first /\ probe'.asserted /\ nodes' = nodes)]_vars

\* the heuristic was called again on a node whose heuristic_distance is 0
C15_Witness ==
  /\ probe.op = "calc_heuristic"
  /\ probe.first
  /\ nodes[probe.node].heuristic_distance = 0

\* C17: update_and_plan_and_execute() replans after a failed execution: when
\* execute() has aborted a step the runner updates the worldstate and goes
\* back to the head of its loop to plan again, and it returns only the goal
\* reached, 'aborted' (no plan) or 'preempted'
C17_ReplansOnFailure ==
  [][(/\ rpc = "update_and_plan_and_execute: execute"
      /\ pc = "executed"
      /\ success = FALSE
      /\ rpc' # rpc)
        => /\ rpc' = "update_and_plan_and_execute"
           /\ updates' = updates + 1
           /\ runner_outcome' = Pending]_vars

\* what the code does: whatever execute() returns ends the loop and is
\* returned, after one call of update_and_plan() and one of execute()
C17_ReturnsAfterOneExecution ==
  (method = "update_and_plan_and_execute" /\ exec_calls > 0) =>
     /\ exec_calls = 1
     /\ plan_calls <= tries
     /\ rpc = "returned" => runner_outcome = executed_outcome(success)

\* C18: plan_and_execute_goals() goes on to the next goal when the execution
\* of a goal's plan was aborted, as it does when the goal has no plan
C18_NextGoalOnFailure ==
  [][(/\ rpc = "plan_and_execute_goals: execute"
      /\ pc = "executed"
      /\ success = FALSE
      /\ rpc' # rpc)
        => /\ rpc' = "plan_and_execute_goals"
           /\ goal_index' = goal_index + 1
           /\ runner_outcome' = Pending]_vars

\* what the code does: the first goal with a plan is executed and the bool
\* of its execution is returned; 'aborted' is returned when no goal that was
\* tried had a plan
C18_ReturnsFirstExecution ==
  (method = "plan_and_execute_goals") =>
     /\ exec_calls <= 1
     /\ (rpc = "returned" /\ exec_calls = 1) => runner_outcome = executed_outcome(success)
     /\ (rpc = "returned" /\ runner_outcome = "aborted") =>
           (exec_calls = 0 /\ goal_index = Len(goals) + 1)

\* update_and_plan() is running, or has returned to its caller
InUpdateAndPlan ==
  \/ rpc \in {"update_and_plan", "update_and_plan: plan"}
  \/ method = "update_and_plan" /\ rpc = "returned"

\* C19: update_and_plan(goal, tries) calls plan() at most tries times and
\* updates the worldstate once right before each call; it returns the start
\* node of the first call that finds a plan, and None only after tries calls
\* that found none
C19_TriesState ==
  InUpdateAndPlan =>
     /\ plan_calls <= tries
     /\ updates = plan_calls
     /\ tries_left = tries - plan_calls
     /\ (method = "update_and_plan" /\ rpc = "returned") =>
           /\ runner_outcome \in {"start_node", "None"}
           /\ runner_outcome = "start_node" => (pc = "found" /\ result # None)
           /\ runner_outcome = "None" => (pc = "no_plan" /\ result = None /\ plan_calls = tries)

C19_TriesStep ==
  /\ (method \in {"update_and_plan", "update_and_plan_and_execute"}
        /\ plan_calls' # plan_calls)
        => /\ plan_calls' = plan_calls + 1
           /\ updates' = updates + 1
           /\ start_worldstate' = world
           /\ pc' = "idle"
  /\ (rpc = "update_and_plan: plan" /\ pc = "found" /\ rpc' # rpc)
        => /\ plan_calls' = plan_calls
           /\ rpc' # "update_and_plan"
           /\ method = "update_and_plan" => runner_outcome' = "start_node"
  /\ (rpc = "update_and_plan: plan" /\ pc = "no_plan" /\ rpc' # rpc /\ plan_calls < tries)
        => rpc' = "update_and_plan"

C19_Tries == [](C19_TriesState) /\ [][C19_TriesStep]_vars

\* update_and_plan() has returned the start node its second call of plan()
\* found, after a first call that found none
C19_Witness ==
  /\ method = "update_and_plan"
  /\ rpc = "returned"
  /\ runner_outcome = "start_node"
  /\ plan_calls = 2
  /\ ~is_goal(nodes[result])

\* C20: once request_preempt() was called the Runner starts no planning
\* attempt and no executor invocation any more, and what it returns then is
\* 'preempted', with the flag cleared
C20_PreemptStops ==
  [][preempt_requested =>
        /\ plan_calls' = plan_calls
        /\ exec_calls' = exec_calls
        /\ rpc' = "returned" => (runner_outcome' = "preempted" /\ ~preempt_requested')]_vars

\* what the code does: the flag is read at the head of the loops of
\* update_and_plan_and_execute() and plan_and_execute_goals() only, and a
\* request found there is serviced: 'preempted' is returned, the flag cleared
\* (an RGOAPRunnerState clears it once more when it returns)
C20_PolledAtLoopHeads ==
  [][/\ (preempt_requested /\ ~preempt_requested' /\ smach_pc' = smach_pc) =>
           /\ rpc \in {"update_and_plan_and_execute", "plan_and_execute_goals"}
           /\ rpc' = "returned"
           /\ runner_outcome' = "preempted"
     /\ (runner_outcome' = "preempted" /\ runner_outcome # "preempted") =>
           (preempt_requested /\ ~preempt_requested')]_vars

\* the plan execute was called on: the returned node, then the nodes of its
\* path from the last to the first, the goal node
Chain == << result >> \o Reverse(nodes[result].parent_nodes_path_list)

IsRun(c) == c.op = "run"

\* the calls of run() so far, in order
Runs == SelectSeq(calls, IsRun)

\* C21: the actions run are those of a prefix of the plan's chain, in chain
\* order, each node's action once, each on the worldstate of its node's parent
\* node; execute returns True exactly when the whole chain was run and the
\* goal node reached
C21_ForwardOrder ==
  pc \in {"exec", "executed"} =>
     /\ Len(Runs) <= Len(Chain) - 1
     /\ \A i \in DOMAIN Runs :
           /\ Runs[i].node = Chain[i]
           /\ Runs[i].arg = Chain[i + 1]
           /\ Runs[i].arg = parent_node(nodes[Runs[i].node])
     /\ \A i, j \in DOMAIN Runs : i # j => Runs[i].node # Runs[j].node
     /\ start_node = Chain[Len(Runs) + 1]
     /\ pc = "executed" =>
           (success = TRUE <=> (Len(Runs) = Len(Chain) - 1 /\ is_goal(nodes[start_node])))

\* a plan of three actions was run to its end
C21_Witness ==
  /\ pc = "executed"
  /\ success = TRUE
  /\ Len(Runs) = 3

IsNotPublish(c) == c.op # "publish_update"

\* the calls made on actions, those on the introspector left out
Unpublished(cs) == SelectSeq(cs, IsNotPublish)

\* what a step of execute does, told without the introspector: the result,
\* the node it goes on with and the calls on the step's action
C22_StepWithoutIntrospector ==
  (pc = "exec" /\ (calls' # calls \/ pc' # pc)) =>
     LET node == start_node
         action == nodes[node].action
     IN  IF is_goal(nodes[node])
         THEN pc' = "executed" /\ success' = TRUE /\ calls' = calls
         ELSE IF ~is_valid(action, nodes[node].worldstate)
         THEN /\ pc' = "executed" /\ success' = FALSE
              /\ Unpublished(calls') =
                    Append(Unpublished(calls), Call("is_valid", node, node))
         ELSE IF ~context[action]
         THEN /\ pc' = "executed" /\ success' = FALSE
              /\ Unpublished(calls') =
                    Unpublished(calls) \o << Call("is_valid", node, node),
                                             Call("check_freeform_context", node, node) >>
         ELSE /\ pc' = "exec" /\ success' = success
              /\ start_node' = parent_node(nodes[node])
              /\ Unpublished(calls') =
                    Unpublished(calls) \o << Call("is_valid", node, node),
                                             Call("check_freeform_context", node, node),
                                             Call("run", node, parent_node(nodes[node])) >>

\* the calls on the introspector: none when none is given; else one
\* publish_update(node) for each node visited but the goal node, right before
\* the node's action is validated
C22_Published ==
  pc \in {"exec", "executed"} =>
     /\ ~introspector => \A i \in DOMAIN calls : calls[i].op # "publish_update"
     /\ introspector =>
          \A i \in DOMAIN calls :
             /\ calls[i].op = "publish_update" =>
                   /\ ~is_goal(nodes[calls[i].node])
                   /\ calls[i].arg = calls[i].node
                   /\ i < Len(calls)
                   /\ calls[i + 1] = Call("is_valid", calls[i].node, calls[i].node)
                   /\ \A j \in DOMAIN calls :
                         (calls[j].op = "publish_update" /\ calls[j].node = calls[i].node)
                            => j = i
             /\ calls[i].op = "is_valid" =>
                   /\ i > 1
                   /\ calls[i - 1] = Call("publish_update", calls[i].node, calls[i].node)

\* C22: the introspector has no influence on execute: what a step returns,
\* where it goes on and what it calls on the actions is the same with and
\* without it; publish_update(node) is called once for each node visited but
\* the goal node, before the node's action is validated or run
C22_Introspection == [](C22_Published) /\ [][C22_StepWithoutIntrospector]_vars

\* execute, given an introspector, has aborted at the second step or later
C22_Witness ==
  /\ pc = "executed"
  /\ introspector
  /\ success = FALSE
  /\ Len(Runs) >= 1
  /\ calls[Len(calls) - 1].op = "publish_update"

\* the open collection holds no node twice, no node that was expanded and
\* no node with children; every node built has its heuristic
C23_OpenNodesFresh ==
  PlanRunning =>
     /\ \A i \in DOMAIN nodes : nodes[i].heuristic_distance # NoneH
     /\ \A i, j \in DOMAIN child_nodes : i # j => child_nodes[i] # child_nodes[j]
     /\ \A i \in DOMAIN child_nodes :
           /\ child_nodes[i] \in DOMAIN nodes
           /\ child_nodes[i] \notin expanded
           /\ has_no_child_nodes(nodes[child_nodes[i]])

\* an iteration of plan() expands a node that was not expanded before and has
\* no children, so that the assertion of get_child_nodes() holds; it leaves
\* the heuristic of every node and the children of every other node as they
\* are
C23_ExpandedOnce ==
  (pc = "loop" /\ expanded' # expanded) =>
     /\ Head(child_nodes) \notin expanded
     /\ has_no_child_nodes(nodes[Head(child_nodes)])
     /\ expanded' = expanded \cup {Head(child_nodes)}
     /\ \A i \in DOMAIN nodes :
           /\ nodes'[i].heuristic_distance = nodes[i].heuristic_distance
           /\ i # Head(child_nodes) =>
                 nodes'[i].possible_prev_nodes = nodes[i].possible_prev_nodes

\* C23: in a run of plan() neither assertion of Node fires: every node has
\* its heuristic, computed once, when it enters the open collection, and every
\* node is popped and expanded at most once
C23_NoAssertion == [](C23_OpenNodesFresh) /\ [][C23_ExpandedOnce]_vars

\* plan() has expanded three nodes and has two nodes open
C23_Witness ==
  /\ pc = "loop"
  /\ Cardinality(expanded) >= 3
  /\ Len(child_nodes) >= 2

\* C24: the heuristic computation of a node other than the goal node never
\* faults on numeric values: no plan() ends by an error raised from it
C24_HeuristicNeverFaults == pc # "raised"

\* where it faults: a child whose value differs from the start value on a
\* numeric condition of the goal whose goal value is the start value
C24_FaultsOnZeroTotalOnly ==
  [][(pc = "loop" /\ pc' = "raised") =>
        \E a \in Range(checked_actions) :
           LET cur == Head(child_nodes)
               child == Node(apply_preconditions(a, nodes[cur].worldstate, start_worldstate),
                             a, Append(nodes[cur].parent_nodes_path_list, cur),
                             Append(nodes[cur].parent_actions_path_list, a))
           IN  \E c \in get_unsatisfied_conditions(child.worldstate, start_worldstate) :
                  /\ c \in Numeric
                  /\ c \in DOMAIN goal
                  /\ goal[c] = start_worldstate[c]]_vars

\* the outcomes RGOAPRunnerState declares, smach_bridge.py line 109
DeclaredOutcomes == {"succeeded", "aborted", "preempted"}

\* C25: RGOAPRunnerState.execute always returns one of its declared outcomes
\* 'succeeded', 'aborted' or 'preempted', on the single-goal path and on the
\* multi-goal path, whether the plan execution succeeds or fails
C25_DeclaredOutcomes ==
  smach_pc = "returned" => smach_outcome \in DeclaredOutcomes

\* what the code does: the state returns 'preempted', or what the Runner
\* returned: 'aborted', 'preempted', the bool of PlanExecutor.execute, or
\* None on shutdown; 'succeeded' is never returned
C25_ReturnsRunnerOutcome ==
  smach_pc = "returned" =>
    /\ smach_outcome \in {"aborted", "preempted", "True", "False", "None"}
    /\ smach_outcome \in {"True", "False"} <=>
          (exec_calls > 0 /\ runner_outcome = executed_outcome(success)
             /\ smach_outcome = runner_outcome)

\* the state has returned the bool of a plan execution on both paths
C25_ReturnsBoolSingleGoal ==
  /\ smach_pc = "returned"
  /\ method = "update_and_plan_and_execute"
  /\ smach_outcome = "True"

C25_ReturnsBoolGoals ==
  /\ smach_pc = "returned"
  /\ method = "plan_and_execute_goals"
  /\ smach_outcome = "False"

\* the Runner is in plan_and_execute_goals()
InPlanAndExecuteGoals ==
  /\ method = "plan_and_execute_goals"
  /\ rpc \notin {"none", "ready"}

\* this call of plan_and_execute_goals() follows a call of it with the same
\* list of a single goal
SecondCallSameSingleGoal ==
  /\ InPlanAndExecuteGoals
  /\ runner_calls = 2
  /\ Len(goals) = 1
  /\ previous_call.goals = goals

\* the second call never calls the planner and returns 'aborted'
SecondCallSkips ==
  /\ plan_calls = 0
  /\ exec_calls = 0
  /\ rpc = "returned" => runner_outcome = "aborted"

\* a step of plan_and_execute_goals() that calls the planner does not plan
\* for the remembered last goal
C26_NeverPlansLastGoal ==
  (InPlanAndExecuteGoals /\ plan_calls' = plan_calls + 1) =>
    /\ goals[goal_index] # last_goal
    /\ goal' = GoalPool[goals[goal_index]].conditions

\* the remembered last goal changes only when a plan was found for a goal:
\* that goal is remembered and its plan is executed
C26_RemembersPlannedGoal ==
  last_goal' # last_goal =>
    /\ rpc = "plan_and_execute_goals: plan"
    /\ pc = "found"
    /\ result # None
    /\ last_goal' = goals[goal_index]
    /\ exec_calls' = exec_calls + 1

====
